---- MODULE Spec2Model ----
(***************************************************************************)
(* The answer-resolution and execution pipeline of the exam taker:         *)
(* ExamTaker (session controller and resolution engine), VisionAnalyzer    *)
(* (screen interpretation, lookup chain) and RemotelyClient (remote        *)
(* session).  Each await on an external call (vision model, knowledge      *)
(* search, web search, reasoning model, coordinate model, post-click       *)
(* delay) is a point where other handlers may run; the code between two    *)
(* such points is one action.  Scores and confidences are percentages.     *)
(***************************************************************************)
EXTENDS Integers, Sequences, FiniteSets, TLC

\* ----- bounds of the model ------------------------------------------------
MaxFrames == 2      \* screenshots delivered by the remote session
MaxApiFrames == 1   \* the same, in the run that records every API call
MaxExams == 1       \* successful startExam calls (fresh exam ids)
MaxRestarts == 2    \* the same, in the run with configuration saves
MaxConnects == 1    \* successful connectRDP calls (fresh session ids, timers)
MaxSessions == 2    \* session ids the client obtains, reconnections included
MaxReconnectCalls == 6   \* calls of RemotelyClient.attemptReconnect
MaxDocs == 3        \* documents added to the knowledge store
MaxAnalyses == 12   \* analyses of screens that show no question
MaxPendingClicks == 1   \* manual clicks between mouse move and press

\* ----- program constants ---------------------------------------------------
DetectionFloor == 50          \* analysis.confidence < 0.5
CoordinateFloor == 50         \* coordinateResult.confidence < 0.5
WebAcceptAbove == 60          \* webSearchResults[0].confidence > 0.6
ReasonBelow == 60             \* confidence < 0.6
similarity_threshold == 70    \* config.rag.similarity_threshold
confidence_threshold == 80    \* config.ai.confidence_threshold
WebConfidenceCap == 80        \* Math.min(relevanceScore, 0.8)
maxReconnectAttempts == 5     \* RemotelyClient.maxReconnectAttempts
MinScore == 10                \* result.score > 0.1
HistoryCap == 10              \* this.analysisHistory.length > 10

Frames == 1..MaxFrames
\* The two handler chains a detected question starts: "va" is
\* VisionAnalyzer.analyzeScreen / processAnalysis / findAnswer, "qd" is
\* ExamTaker.handleQuestionDetected.
Kinds == {"va", "qd"}
Failed == 0 - 1    \* an external call that threw, timed out or answered garbage
Unset == 0 - 1     \* a field that was never assigned

\* Results the external collaborators can deliver.
AnalysisOutcomes ==
    { [error |-> TRUE, question |-> FALSE, confidence |-> 0, options |-> FALSE],
      [error |-> FALSE, question |-> FALSE, confidence |-> 90, options |-> FALSE],
      [error |-> FALSE, question |-> TRUE, confidence |-> 40, options |-> TRUE],
      [error |-> FALSE, question |-> TRUE, confidence |-> 50, options |-> TRUE],
      [error |-> FALSE, question |-> TRUE, confidence |-> 50, options |-> FALSE] }
\* Top score of a knowledge search; 0 stands for an empty result list.
RagOutcomes == {Failed, 0, 75, 80}
\* The same with a top score equal to the similarity threshold.
RagBoundaryOutcomes == RagOutcomes \cup {similarity_threshold}
\* Relevance score of the top web result; 0 stands for an empty result list.
WebOutcomes == {Failed, 0, 90}
\* The same with a relevance between the web acceptance level and the
\* similarity threshold.
WebBoundaryOutcomes == WebOutcomes \cup {65}
\* Confidence reported by the reasoning model.
ReasonerOutcomes == {Failed, 75, 80}
CoordinateOutcomes ==
    { [error |-> TRUE, confidence |-> 0, coordinates |-> FALSE],
      [error |-> FALSE, confidence |-> 40, coordinates |-> TRUE],
      [error |-> FALSE, confidence |-> 90, coordinates |-> FALSE],
      [error |-> FALSE, confidence |-> 90, coordinates |-> TRUE] }
\* The input-injection operations of the remote session.
InjectionOps == {"clickAnswer", "typeAnswer", "dragAndDrop"}

VARIABLES
    \* ExamTaker
    sessionId, examId, isActive, manualOverride, connected,
    currentQuestion, questionHistory, screenshotInterval, lastScreenshot,
    \* RemotelyClient
    ws, clientConnected, clientSessionId, reconnectAttempts, reconnectTimers,
    \* VisionAnalyzer
    lastAnalysis, analysisHistory, webConfigured,
    \* the runtime configuration: config.json as loaded at start-up, then
    \* whatever /api/config/save assigned
    config,
    \* RAGSystem in memory-fallback mode: the documents in insertion order
    \* and the last search with its results
    memoryStore, lastSearch,
    \* the Node event loop: interval timers alive, async chains suspended
    \* at an await, with the answer confidence an executing chain carries,
    \* manual clicks waiting out ActionExecutor's delay before the press
    timers, pc, answerData, pendingClicks,
    \* the environment: screenshots delivered so far, ids handed out
    frames, connects, exams, analyses,
    \* what an observer of the run has seen: per screenshot, and the outcome
    \* of the last API call
    obs, lastCall

etVars == <<sessionId, examId, isActive, manualOverride, connected,
            currentQuestion, questionHistory, screenshotInterval, lastScreenshot>>
rcVars == <<ws, clientConnected, clientSessionId, reconnectAttempts, reconnectTimers>>
vaVars == <<lastAnalysis, analysisHistory, webConfigured>>
loopVars == <<timers, pc, answerData, pendingClicks>>
envVars == <<frames, connects, exams, analyses>>
ragVars == <<memoryStore, lastSearch>>
vars == <<etVars, rcVars, vaVars, config, ragVars, loopVars, envVars, obs, lastCall>>

\* The thresholds of a screenshot in which no question was detected.
NoThresholds == [similarity_threshold |-> Unset, confidence_threshold |-> Unset]

\* arrival: "analyzed" or "skipped"; forwarded: the screenshot event went
\* out; override: manualOverride at arrival;
\* belowFloor: the analysis reported a confidence below the detection floor;
\* events: events emitted for a below-floor analysis; records: Question
\* records created; lookups: knowledge searches started; hit: the knowledge
\* search of findAnswer returned a top score above the similarity threshold;
\* boundary: it returned a top score equal to the similarity threshold;
\* later: fallback stages findAnswer invoked; answerFound: handleAnswerFound
\* runs; clicks: clickAnswer calls; sent: click messages that went out on
\* the socket; failed: stages of findAnswer that threw; order: the position
\* of the screenshot's analysis among the completed analyses; pushed: the
\* history position of the first record an execution of this screenshot's
\* question appended; shots: screenshot events emitted for the screenshot;
\* thresholds: the runtime thresholds when the screenshot's question was
\* detected.
NoObs == [ arrival |-> "none", forwarded |-> FALSE, override |-> FALSE,
           belowFloor |-> FALSE,
           events |-> {}, records |-> 0, lookups |-> 0, hit |-> FALSE,
           boundary |-> FALSE, later |-> {}, answerFound |-> 0, clicks |-> 0, sent |-> 0,
           failed |-> {}, order |-> 0, pushed |-> 0,
           shots |-> 0, thresholds |-> NoThresholds ]
NoQuestion == [id |-> 0, status |-> "none", confidence |-> Unset]
\* op: the call; ok: it returned normally (for an injection: success; for a
\* manual event: it was acted on);
\* events: what it emitted; twice: the call before it was the same call.
NoCall == [op |-> "none", ok |-> TRUE, events |-> {}, twice |-> FALSE]
\* No search made yet.  size: documents in the store when the search ran.
NoSearch == [query |-> {}, limit |-> 0, examType |-> "null", size |-> 0,
             results |-> <<>>]

\* ----- RemotelyClient ------------------------------------------------------

\* RemotelyClient.sendMessage: TRUE when the message goes out on the socket.
sendMessage == ws # "null" /\ clientConnected

\* RemotelyClient.clickAnswer: mouse move, delay, mouse click, then the
\* result object; sent tells whether the messages went out.
clickAnswer == [success |-> TRUE, sent |-> sendMessage]

\* RemotelyClient.typeAnswer: text input, then the result object.
typeAnswer == [success |-> TRUE, sent |-> sendMessage]

\* RemotelyClient.dragAndDrop: move, button down, move, button up, then the
\* result object.
dragAndDrop == [success |-> TRUE, sent |-> sendMessage]

\* ----- VisionAnalyzer / ExamTaker decisions --------------------------------

\* processAnalysis without its confidence floor.
questionAccepted_noFloor(a) == a.question

\* VisionAnalyzer.processAnalysis: the analysis carries an acceptable question.
questionAccepted(a) == a.question /\ ~(a.confidence < DetectionFloor)

\* A lookup compared against the execution threshold instead.
ragHit_gate(score) == score > 0 /\ score > config.confidence_threshold

\* ragResults.length > 0 && ragResults[0].score > config.rag.similarity_threshold
ragHit(score) == score > 0 /\ score > config.similarity_threshold

\* WebSearchClient.processSearchResults: confidence of a web result.
webConfidence(score) == IF score < WebConfidenceCap THEN score ELSE WebConfidenceCap

\* webSearchResults.length > 0 && webSearchResults[0].confidence > 0.6
webHit(score) == score > 0 /\ webConfidence(score) > WebAcceptAbove

\* VisionAnalyzer.findAnswer: !bestAnswer || confidence < 0.6
needsReasoning(found, confidence) == ~found \/ confidence < ReasonBelow

\* ExamTaker.handleAnswerFound: confidence gate before executeAnswer.
confidenceGate(confidence) == confidence >= config.confidence_threshold

\* The early return without its override test.
skipAnalysis_activeOnly == ~isActive

\* ExamTaker.handleRemotelyScreenshot: the early return that skips analysis.
skipAnalysis == ~isActive \/ manualOverride

\* ExamTaker.handleQuestionDetected: the Question record it creates.
newQuestion(f) == [id |-> f, status |-> "analyzing", confidence |-> Unset]

\* ExamTaker.handleAnswerFound: fields written on the current question.
answered(q, confidence) ==
    IF q = NoQuestion THEN NoQuestion
    ELSE [q EXCEPT !.confidence = confidence, !.status = "answered"]

\* ExamTaker.handleUncertainty: status written on the current question.
uncertain(q) == IF q = NoQuestion THEN NoQuestion ELSE [q EXCEPT !.status = "uncertain"]

Init ==
    /\ sessionId = 0 /\ examId = 0
    /\ isActive = FALSE /\ manualOverride = FALSE /\ connected = FALSE
    /\ currentQuestion = NoQuestion /\ questionHistory = <<>>
    /\ screenshotInterval = 0 /\ lastScreenshot = 0
    /\ ws = "null" /\ clientConnected = FALSE /\ clientSessionId = 0
    /\ reconnectAttempts = 0 /\ reconnectTimers = 0
    /\ memoryStore = <<>> /\ lastSearch = NoSearch
    /\ lastAnalysis = 0 /\ analysisHistory = <<>>
    /\ webConfigured \in BOOLEAN
    /\ config = [similarity_threshold |-> similarity_threshold,
                 confidence_threshold |-> confidence_threshold]
    /\ timers = {} /\ pendingClicks = 0
    /\ pc = [f \in Frames |-> [k \in Kinds |-> "idle"]]
    /\ answerData = [f \in Frames |-> [k \in Kinds |-> Unset]]
    /\ frames = 0 /\ connects = 0 /\ exams = 0 /\ analyses = 0
    /\ obs = [f \in Frames |-> NoObs]
    /\ lastCall = NoCall

\* ----- the resolution pipeline ---------------------------------------------

\* An event emitted while screenshot f is handled; the observer keeps the
\* events of a screenshot whose analysis was below the detection floor.
Emit(o, e) == IF o.belowFloor THEN [o EXCEPT !.events = @ \cup e] ELSE o

\* An uncertainty that forgets to enable manual override.
handleUncertainty_noOverride(f, k, q, o) ==
    /\ currentQuestion' = uncertain(q)
    /\ obs' = [obs EXCEPT ![f] = Emit(o, {"ai_uncertainty"})]
    /\ pc' = [pc EXCEPT ![f][k] = "done"]
    /\ answerData' = [answerData EXCEPT ![f][k] = Unset]
    /\ UNCHANGED <<manualOverride, questionHistory>>

\* ExamTaker.handleUncertainty, reached from chain k of screenshot f with the
\* observations o made so far in this step: emits ai_uncertainty, enables
\* manual override, marks the current question uncertain.  The chain ends.
handleUncertainty(f, k, q, o) ==
    /\ manualOverride' = TRUE
    /\ currentQuestion' = uncertain(q)
    /\ obs' = [obs EXCEPT ![f] = Emit(o, {"ai_uncertainty"})]
    /\ pc' = [pc EXCEPT ![f][k] = "done"]
    /\ answerData' = [answerData EXCEPT ![f][k] = Unset]
    /\ UNCHANGED questionHistory

\* ExamTaker.executeAnswer up to its first await: VisionAnalyzer
\* .findAnswerCoordinates throws without a last analysis, otherwise it asks
\* the model for the coordinates of the answer.
executeAnswer(f, k, q, confidence, o) ==
    IF lastAnalysis = 0
    THEN handleUncertainty(f, k, q, o)
    ELSE /\ answerData' = [answerData EXCEPT ![f][k] = confidence]
         /\ pc' = [pc EXCEPT ![f][k] = "coordinates"]
         /\ currentQuestion' = q
         /\ obs' = [obs EXCEPT ![f] = o]
         /\ UNCHANGED <<manualOverride, questionHistory>>

\* ExamTaker.handleAnswerFound: writes the answer on the current question,
\* emits answer_found, then executes or raises uncertainty.
handleAnswerFound(f, k, confidence, o) ==
    LET q == answered(currentQuestion, confidence)
        o1 == Emit([o EXCEPT !.answerFound = @ + 1], {"answer_found"})
    IN IF confidenceGate(confidence)
       THEN executeAnswer(f, k, q, confidence, o1)
       ELSE handleUncertainty(f, k, q, o1)

\* A handler that forwards only the screenshots of an active session.
forwardScreenshot_activeOnly(o) ==
    IF isActive THEN [o EXCEPT !.forwarded = TRUE, !.shots = @ + 1] ELSE o

\* this.io.emit('screenshot', ...) in either branch of
\* handleRemotelyScreenshot, as the observer of the screenshot sees it.
forwardScreenshot(o) == [o EXCEPT !.forwarded = TRUE, !.shots = @ + 1]

\* ExamTaker.handleRemotelyScreenshot for the next screenshot pushed by the
\* remote session (at most limit of them), up to the await on the vision
\* model.  The screenshot
\* event goes out in both branches.
handleRemotelyScreenshot(limit) ==
    /\ frames < limit
    /\ clientConnected
    /\ LET f == frames + 1 IN
          /\ frames' = f
          /\ IF skipAnalysis
             THEN /\ pc' = [pc EXCEPT ![f] = [k \in Kinds |-> "done"]]
                  /\ obs' = [obs EXCEPT ![f] =
                               forwardScreenshot([@ EXCEPT !.arrival = "skipped",
                                                           !.override = manualOverride])]
                  /\ UNCHANGED lastScreenshot
             ELSE /\ lastScreenshot' = f
                  /\ pc' = [pc EXCEPT ![f]["va"] = "analyzing"]
                  /\ obs' = [obs EXCEPT ![f] =
                               forwardScreenshot([@ EXCEPT !.arrival = "analyzed",
                                                           !.override = manualOverride])]
    /\ UNCHANGED <<sessionId, examId, isActive, manualOverride, connected,
                   currentQuestion, questionHistory, screenshotInterval>>
    /\ UNCHANGED <<rcVars, vaVars, config, ragVars, timers, answerData, pendingClicks,
                   connects, exams, analyses>>

\* A history that is never cut.
pushAnalysis_noCap(h, a) == Append(h, a)

\* VisionAnalyzer.analyzeScreen: the analysis is pushed on analysisHistory
\* and the oldest entry is shifted out once there are more than ten.
pushAnalysis(h, a) ==
    LET pushed == Append(h, a)
    IN IF Len(pushed) > HistoryCap THEN Tail(pushed) ELSE pushed

\* A failure handler that treats the failed analysis as an uncertainty.
analysisFailure_uncertain(f) ==
    /\ pc' = [pc EXCEPT ![f] = [k \in Kinds |-> "done"]]
    /\ manualOverride' = TRUE
    /\ UNCHANGED <<lastAnalysis, analysisHistory, currentQuestion, obs>>

\* The vision call of screenshot f threw or timed out: analyzeScreen logs
\* and rethrows, handleRemotelyScreenshot logs; nothing is emitted and
\* nothing is written.
analysisFailure(f) ==
    /\ pc' = [pc EXCEPT ![f] = [k \in Kinds |-> "done"]]
    /\ UNCHANGED <<manualOverride, lastAnalysis, analysisHistory, currentQuestion, obs>>

\* VisionAnalyzer.analyzeScreen after the vision model answered, with
\* processAnalysis and, through the question_detected event, the start of
\* ExamTaker.handleQuestionDetected; both stop at their knowledge search.
\* Without options processAnalysis returns and screen_analysis goes out.
analyzeScreen(f) ==
    /\ pc[f]["va"] = "analyzing"
    /\ \E a \in AnalysisOutcomes :
        IF a.error
        THEN analysisFailure(f)
        ELSE LET o == [obs[f] EXCEPT !.belowFloor = a.confidence < DetectionFloor,
                                     !.order = 1 + Cardinality({g \in Frames : obs[g].order > 0})] IN
             /\ lastAnalysis' = f
             /\ analysisHistory' = pushAnalysis(analysisHistory, f)
             /\ UNCHANGED manualOverride
             /\ IF ~questionAccepted(a)
                THEN /\ pc' = [pc EXCEPT ![f] = [k \in Kinds |-> "done"]]
                     /\ obs' = [obs EXCEPT ![f] = Emit(o, {"screen_analysis"})]
                     /\ UNCHANGED currentQuestion
                ELSE /\ currentQuestion' = newQuestion(f)
                     /\ pc' = [pc EXCEPT ![f] =
                                  [k \in Kinds |->
                                     IF k = "qd" THEN "search"
                                     ELSE IF a.options THEN "search" ELSE "done"]]
                     /\ obs' = [obs EXCEPT ![f] =
                                  Emit([o EXCEPT !.records = @ + 1,
                                                 !.thresholds = config,
                                                 !.lookups = @ + (IF a.options THEN 2 ELSE 1)],
                                       {"question_detected"} \cup
                                       (IF a.options THEN {} ELSE {"screen_analysis"}))]
    /\ UNCHANGED <<sessionId, examId, isActive, connected,
                   questionHistory, screenshotInterval, lastScreenshot>>
    /\ UNCHANGED <<rcVars, webConfigured, config, ragVars, timers, answerData, pendingClicks, envVars>>

\* ExamTaker.handleQuestionDetected after ragSystem.search(question, 5,
\* currentExamType) settled.
handleQuestionDetected(f) ==
    /\ pc[f]["qd"] = "search"
    /\ \E r \in RagOutcomes :
        LET o == Emit(obs[f], {"ai_reasoning"}) IN
        IF r = Failed
        THEN handleUncertainty(f, "qd", currentQuestion, obs[f])
        ELSE IF ragHit(r)
        THEN handleAnswerFound(f, "qd", r, o)
        ELSE \* searchOnlineForAnswer: a placeholder that raises uncertainty
             handleUncertainty(f, "qd", currentQuestion, o)
    /\ UNCHANGED <<sessionId, examId, isActive, connected, screenshotInterval, lastScreenshot>>
    /\ UNCHANGED <<rcVars, vaVars, config, ragVars, timers, pendingClicks, envVars>>

\* The reasoning call VisionAnalyzer.findAnswer makes when no stage gave an
\* answer with confidence of 0.6 or more.
reasonAboutAnswer(f, o) ==
    /\ pc' = [pc EXCEPT ![f]["va"] = "reasoning"]
    /\ obs' = [obs EXCEPT ![f] = [o EXCEPT !.later = @ \cup {"reasoner"}]]
    /\ UNCHANGED <<manualOverride, currentQuestion, answerData, questionHistory>>

\* The observer's note that findAnswer's knowledge search returned top
\* score r.
Returned(o, r) == [o EXCEPT !.hit = r > config.similarity_threshold,
                           !.boundary = r = config.similarity_threshold]

\* VisionAnalyzer.findAnswer after ragSystem.search(question, max_results)
\* settled with a top score from scores.
findAnswer(f, scores) ==
    /\ pc[f]["va"] = "search"
    /\ \E r \in scores :
        LET o == Emit(Returned(obs[f], r), {"screen_analysis"}) IN
        IF r = Failed
        THEN handleUncertainty(f, "va", currentQuestion,
                               [o EXCEPT !.failed = @ \cup {"knowledge"}])
        ELSE IF ragHit(r)
        THEN handleAnswerFound(f, "va", r, o)
        ELSE IF webConfigured
        THEN /\ pc' = [pc EXCEPT ![f]["va"] = "web"]
             /\ obs' = [obs EXCEPT ![f] =
                          [Returned(obs[f], r) EXCEPT !.later = @ \cup {"web"}]]
             /\ UNCHANGED <<manualOverride, currentQuestion, answerData,
                            questionHistory>>
        ELSE reasonAboutAnswer(f, Returned(obs[f], r))
    /\ UNCHANGED <<sessionId, examId, isActive, connected, screenshotInterval, lastScreenshot>>
    /\ UNCHANGED <<rcVars, vaVars, config, ragVars, timers, pendingClicks, envVars>>

\* VisionAnalyzer.findAnswer after webSearchClient.searchForQuestionType
\* settled with a top relevance from scores; a failure is logged and leaves
\* the web results empty.
findAnswerWeb(f, scores) ==
    /\ pc[f]["va"] = "web"
    /\ \E w \in scores :
        LET found == w # Failed /\ webHit(w) IN
        IF needsReasoning(found, IF found THEN webConfidence(w) ELSE 0)
        THEN reasonAboutAnswer(f, obs[f])
        ELSE handleAnswerFound(f, "va", webConfidence(w),
                               Emit(obs[f], {"screen_analysis"}))
    /\ UNCHANGED <<sessionId, examId, isActive, connected, screenshotInterval, lastScreenshot>>
    /\ UNCHANGED <<rcVars, vaVars, config, ragVars, timers, pendingClicks, envVars>>

\* VisionAnalyzer.findAnswer after ollamaClient.reasonAboutAnswer settled.
findAnswerReasoned(f) ==
    /\ pc[f]["va"] = "reasoning"
    /\ \E c \in ReasonerOutcomes :
        LET o == Emit(obs[f], {"screen_analysis"}) IN
        IF c = Failed
        THEN handleUncertainty(f, "va", currentQuestion,
                               [o EXCEPT !.failed = @ \cup {"reasoner"}])
        ELSE handleAnswerFound(f, "va", c, o)
    /\ UNCHANGED <<sessionId, examId, isActive, connected, screenshotInterval, lastScreenshot>>
    /\ UNCHANGED <<rcVars, vaVars, config, ragVars, timers, pendingClicks, envVars>>

\* ExamTaker.executeAnswer after findAnswerCoordinates settled: without
\* usable coordinates it raises uncertainty, otherwise it clicks through
\* RemotelyClient.clickAnswer and waits for the page to update.
executeAnswerClick(f, k) ==
    /\ pc[f][k] = "coordinates"
    /\ \E c \in CoordinateOutcomes :
        IF c.error \/ c.confidence < CoordinateFloor \/ ~c.coordinates
        THEN handleUncertainty(f, k, currentQuestion, obs[f])
        ELSE /\ clickAnswer.success
             /\ obs' = [obs EXCEPT ![f].clicks = @ + 1,
                                   ![f].sent = @ + (IF clickAnswer.sent THEN 1 ELSE 0)]
             /\ pc' = [pc EXCEPT ![f][k] = "delay"]
             /\ UNCHANGED <<manualOverride, currentQuestion, answerData, questionHistory>>
    /\ UNCHANGED <<sessionId, examId, isActive, connected, screenshotInterval, lastScreenshot>>
    /\ UNCHANGED <<rcVars, vaVars, config, ragVars, timers, pendingClicks, envVars>>

\* ExamTaker.executeAnswer: this.questionHistory.push({...this.currentQuestion}).
pushHistory(h, q) == Append(h, q)

\* ExamTaker.executeAnswer after the screenshot_analysis_delay: a copy of
\* the current question goes to the history and action_executed is emitted.
executeAnswerRecord(f, k) ==
    /\ pc[f][k] = "delay"
    /\ questionHistory' = pushHistory(questionHistory, currentQuestion)
    /\ obs' = [obs EXCEPT ![f] =
                 Emit([@ EXCEPT !.pushed = IF @ = 0 THEN Len(questionHistory') ELSE @],
                      {"action_executed"})]
    /\ pc' = [pc EXCEPT ![f][k] = "done"]
    /\ answerData' = [answerData EXCEPT ![f][k] = Unset]
    /\ UNCHANGED <<sessionId, examId, isActive, manualOverride, connected,
                   currentQuestion, screenshotInterval, lastScreenshot>>
    /\ UNCHANGED <<rcVars, vaVars, config, ragVars, timers, pendingClicks, envVars>>

\* ----- the controller's API ------------------------------------------------

\* The session state a caller of the controller can observe.
SessionState ==
    [isActive |-> isActive, manualOverride |-> manualOverride, examId |-> examId,
     sessionId |-> sessionId, questionHistory |-> questionHistory,
     screenshotInterval |-> screenshotInterval]

\* A stop that flips the active flag.
stopExam_toggles(S) == [S EXCEPT !.isActive = ~S.isActive, !.screenshotInterval = 0]

\* ExamTaker.stopExam on a session state: inactive, interval handle dropped.
stopExam(S) == [S EXCEPT !.isActive = FALSE, !.screenshotInterval = 0]

\* clearInterval(this.screenshotInterval) when one is stored.
clearInterval(T, handle) == IF handle # 0 THEN T \ {handle} ELSE T

\* startExam without its connection guard.
startExamAllowed_always == TRUE

\* ExamTaker.startExam: the guard on the RDP connection.
startExamAllowed == connected

\* ExamTaker.connectRDP: RemotelyClient.connect either throws (bad access
\* key, no devices, unknown device, no session) or marks the client
\* connected, emits 'connected' (ExamTaker.connected := true), after which
\* the controller stores the session id and starts the request timer,
\* overwriting the stored handle.  At most limit session ids are handed out.
connectRDP(ok, limit) ==
    /\ IF ok
       THEN /\ connects < limit
            /\ connects' = connects + 1
            /\ clientConnected' = TRUE
            /\ clientSessionId' = connects + 1
            /\ connected' = TRUE
            /\ sessionId' = connects + 1
            /\ screenshotInterval' = connects + 1
            /\ timers' = timers \cup {connects + 1}
       ELSE UNCHANGED <<connects, clientConnected, clientSessionId, connected,
                        sessionId, screenshotInterval, timers>>
    /\ UNCHANGED <<examId, isActive, manualOverride, currentQuestion, questionHistory,
                   lastScreenshot, ws, reconnectAttempts, reconnectTimers,
                   vaVars, config, ragVars, pc, answerData, pendingClicks,
                   frames, exams, analyses, obs>>

\* ExamTaker.disconnect: stops a running exam, asks the client to disconnect
\* (RemotelyClient.disconnect acts only on an open socket), then clears the
\* controller's connected flag and session id.
disconnect ==
    /\ IF isActive
       THEN /\ isActive' = stopExam(SessionState).isActive
            /\ screenshotInterval' = stopExam(SessionState).screenshotInterval
            /\ timers' = clearInterval(timers, screenshotInterval)
       ELSE UNCHANGED <<isActive, screenshotInterval, timers>>
    /\ IF ws # "null" /\ clientConnected
       THEN clientConnected' = FALSE /\ clientSessionId' = 0
       ELSE UNCHANGED <<clientConnected, clientSessionId>>
    /\ connected' = FALSE
    /\ sessionId' = 0
    /\ UNCHANGED <<examId, manualOverride, currentQuestion, questionHistory,
                   lastScreenshot, ws, reconnectAttempts, reconnectTimers,
                   vaVars, config, ragVars, pc, answerData, pendingClicks,
                   envVars, obs>>

\* ExamTaker.startExam (at most limit successful calls): throws without a
\* connection, otherwise a fresh exam id, the active flag, an empty history
\* and the exam_started event.
startExam(limit) ==
    /\ IF startExamAllowed
       THEN /\ exams < limit
            /\ exams' = exams + 1
            /\ examId' = exams + 1
            /\ isActive' = TRUE
            /\ questionHistory' = <<>>
       ELSE UNCHANGED <<exams, examId, isActive, questionHistory>>
    /\ UNCHANGED <<sessionId, manualOverride, connected, currentQuestion,
                   screenshotInterval, lastScreenshot, rcVars, vaVars, config, ragVars,
                   loopVars, frames, connects, analyses, obs>>

\* ExamTaker.stopExam (the call): applies stopExam to the session state and
\* clears the stored interval; exam_stopped is emitted by every call.
stopExamCall ==
    /\ isActive' = stopExam(SessionState).isActive
    /\ screenshotInterval' = stopExam(SessionState).screenshotInterval
    /\ timers' = clearInterval(timers, screenshotInterval)
    /\ UNCHANGED <<sessionId, examId, manualOverride, connected, currentQuestion,
                   questionHistory, lastScreenshot, rcVars, vaVars, config, ragVars,
                   pc, answerData, pendingClicks, envVars, obs>>

\* An override switch that also stops the exam when it is enabled.
setManualOverride_stops(enabled) ==
    /\ manualOverride' = enabled
    /\ isActive' = (isActive /\ ~enabled)
    /\ UNCHANGED <<sessionId, examId, connected, currentQuestion,
                   questionHistory, screenshotInterval, lastScreenshot, rcVars,
                   vaVars, config, ragVars, loopVars, envVars, obs>>

\* ExamTaker.setManualOverride.
setManualOverride(enabled) ==
    /\ manualOverride' = enabled
    /\ UNCHANGED <<sessionId, examId, isActive, connected, currentQuestion,
                   questionHistory, screenshotInterval, lastScreenshot, rcVars,
                   vaVars, config, ragVars, loopVars, envVars, obs>>

\* A direct call of one of RemotelyClient's input-injection operations.
injectInput(op) ==
    /\ op \in InjectionOps
    /\ UNCHANGED <<etVars, rcVars, vaVars, config, ragVars, loopVars, envVars, obs>>

\* The result object of input-injection operation op.
injectionResult(op) ==
    IF op = "clickAnswer" THEN clickAnswer
    ELSE IF op = "typeAnswer" THEN typeAnswer ELSE dragAndDrop

\* ----- manual control ---------------------------------------------------------

\* The socket events an operator can send for manual control.
ManualOps == {"manual_click", "manual_type"}

\* Manual events accepted whatever the override flag.
manualAllowed_always == TRUE

\* The guard of the manual_click and manual_type socket handlers:
\* this.examTaker && this.examTaker.isManualOverride().
manualAllowed == manualOverride

\* socket.on('manual_click'): under the guard ExamTaker.performClick calls
\* ActionExecutor.click, which moves the mouse and waits actionDelay
\* before the press; otherwise the event is ignored.
manual_click ==
    /\ IF manualAllowed
       THEN /\ pendingClicks < MaxPendingClicks
            /\ pendingClicks' = pendingClicks + 1
       ELSE UNCHANGED pendingClicks
    /\ UNCHANGED <<etVars, rcVars, vaVars, config, ragVars, timers, pc,
                   answerData, envVars, obs>>

\* ActionExecutor.click after its delay: the mouse press, then
\* performClick emits manual_action.
performClick ==
    /\ pendingClicks > 0
    /\ pendingClicks' = pendingClicks - 1
    /\ UNCHANGED <<etVars, rcVars, vaVars, config, ragVars, timers, pc,
                   answerData, envVars, obs>>

\* socket.on('manual_type'): under the guard ExamTaker.performType types
\* the text through ActionExecutor.type and emits manual_action; otherwise
\* the event is ignored.
manual_type ==
    UNCHANGED <<etVars, rcVars, vaVars, config, ragVars, loopVars, envVars, obs>>

\* ----- connection events, reconnection, polling -----------------------------

\* ExamTaker's listener for the client's 'disconnected' event: it clears the
\* controller's connected flag and emits rdp_disconnected.  The event is
\* delivered from outside: RemotelyClient has no statement that emits it.
onDisconnected ==
    /\ connected' = FALSE
    /\ UNCHANGED <<sessionId, examId, isActive, manualOverride, currentQuestion,
                   questionHistory, screenshotInterval, lastScreenshot, rcVars,
                   vaVars, config, ragVars, loopVars, envVars, obs>>

\* The callback of the interval timer set by startScreenshotRequests asks
\* for a screenshot: the timer is alive and RemotelyClient.isConnected().
requestsScreenshots == timers # {} /\ clientConnected

\* RemotelyClient.attemptReconnect: counts the attempt and sets a timer of
\* reconnectDelay for the connect.
attemptReconnect ==
    /\ reconnectAttempts < MaxReconnectCalls
    /\ reconnectAttempts' = reconnectAttempts + 1
    /\ reconnectTimers' = reconnectTimers + 1
    /\ UNCHANGED <<etVars, ws, clientConnected, clientSessionId, vaVars, config,
                   ragVars, loopVars, envVars, obs>>

\* The timer callback of attemptReconnect: with the credentials of an
\* earlier connection it calls connect, which either fails (logged) or
\* marks the client connected with a fresh session id and emits
\* 'connected' (ExamTaker.connected := true).
reconnectTimeout(ok) ==
    /\ reconnectTimers > 0
    /\ reconnectTimers' = reconnectTimers - 1
    /\ IF clientSessionId # 0 /\ ok
       THEN /\ connects < MaxSessions
            /\ connects' = connects + 1
            /\ clientConnected' = TRUE
            /\ clientSessionId' = connects + 1
            /\ connected' = TRUE
       ELSE UNCHANGED <<connects, clientConnected, clientSessionId, connected>>
    /\ UNCHANGED <<sessionId, examId, isActive, manualOverride, currentQuestion,
                   questionHistory, screenshotInterval, lastScreenshot, ws,
                   reconnectAttempts, vaVars, config, ragVars, loopVars,
                   frames, exams, analyses, obs>>

\* ----- runtime configuration ---------------------------------------------------

\* Thresholds a client may post to /api/config/save.
ConfigUpdates ==
    [similarity_threshold : {similarity_threshold, 75},
     confidence_threshold : {75, confidence_threshold}]

\* POST /api/config/save: Object.assign on the runtime config.rag and
\* config.ai, then config_updated.
saveConfig(newConfig) ==
    /\ config' = newConfig
    /\ UNCHANGED <<etVars, rcVars, vaVars, ragVars, loopVars, envVars, obs>>

\* ----- RAGSystem, memory-fallback mode ----------------------------------------

Words == {"a", "b"}
\* A text as the set of its words.
Texts == SUBSET Words \ {{}}
Subjects == {"general", "math"}

\* RAGSystem.calculateTextSimilarity: word overlap, intersection over union.
calculateTextSimilarity(text1, text2) ==
    (100 * Cardinality(text1 \cap text2)) \div Cardinality(text1 \cup text2)

\* Array.prototype.sort((a, b) => b.score - a.score): descending by score,
\* stable, so results of equal score keep their order.
RECURSIVE sortByScore(_)
sortByScore(rs) ==
    IF rs = <<>> THEN <<>>
    ELSE LET top == CHOOSE i \in 1..Len(rs) :
                       /\ \A j \in 1..Len(rs) : rs[j].score <= rs[i].score
                       /\ \A j \in 1..(i - 1) : rs[j].score < rs[i].score
         IN <<rs[top]>> \o sortByScore(SubSeq(rs, 1, top - 1) \o
                                       SubSeq(rs, top + 1, Len(rs)))

\* A slice that ignores its limit.
slice_all(rs, limit) == rs

\* Array.prototype.slice(0, limit).
slice(rs, limit) == SubSeq(rs, 1, IF Len(rs) < limit THEN Len(rs) ELSE limit)

\* The results search computes over the memory store.
searchResults(query, limit, examType) ==
    LET Match(doc) == examType = "null" \/ doc.subject = examType
        Scored(doc) == [id |-> doc.id,
                        score |-> calculateTextSimilarity(query, doc.content)]
        matching == SelectSeq(memoryStore, Match)
        scored == [i \in 1..Len(matching) |-> Scored(matching[i])]
        Relevant(r) == r.score > MinScore
    IN slice(sortByScore(SelectSeq(scored, Relevant)), limit)

\* RAGSystem.addDocument: the document is pushed on the memory store.
addDocument(content, subject) ==
    /\ Len(memoryStore) < MaxDocs
    /\ memoryStore' = Append(memoryStore,
                             [id |-> Len(memoryStore) + 1, content |-> content,
                              subject |-> subject])
    /\ UNCHANGED <<etVars, rcVars, vaVars, config, lastSearch, loopVars,
                   envVars, obs>>

\* RAGSystem.search(query, limit, examType).
search(query, limit, examType) ==
    /\ lastSearch' = [query |-> query, limit |-> limit, examType |-> examType,
                      size |-> Len(memoryStore),
                      results |-> searchResults(query, limit, examType)]
    /\ UNCHANGED <<etVars, rcVars, vaVars, config, memoryStore, loopVars,
                   envVars, obs>>

\* ----- VisionAnalyzer's analysis history ------------------------------------

\* VisionAnalyzer.analyzeScreen on a screen that shows no acceptable
\* question, so that processAnalysis returns at once: the vision call
\* fails (logged, rethrown) or the analysis is stored and pushed on the
\* history.
analyzeIdleScreen ==
    /\ analyses < MaxAnalyses
    /\ analyses' = analyses + 1
    /\ \E a \in {x \in AnalysisOutcomes : ~questionAccepted(x)} :
          IF a.error
          THEN UNCHANGED <<lastAnalysis, analysisHistory>>
          ELSE /\ lastAnalysis' = MaxFrames + analyses + 1
               /\ analysisHistory' = pushAnalysis(analysisHistory, lastAnalysis')
    /\ UNCHANGED <<etVars, rcVars, webConfigured, config, ragVars, loopVars,
                   frames, connects, exams, obs>>

\* VisionAnalyzer.clearHistory.
clearHistory ==
    /\ analysisHistory' = <<>>
    /\ lastAnalysis' = 0
    /\ UNCHANGED <<etVars, rcVars, webConfigured, config, ragVars, loopVars,
                   envVars, obs>>

\* ----- specifications --------------------------------------------------------

\* A step of the program while no API call is being recorded.
Other(A) == A /\ UNCHANGED lastCall

\* A handler step between recorded API calls.
Handler(A) == A /\ lastCall' = NoCall

\* An API call as its caller sees it.
Called(op, ok, events, A) ==
    A /\ lastCall' = [op |-> op, ok |-> ok, events |-> events,
                      twice |-> lastCall.op = op]

Next ==
    \/ \E ok \in BOOLEAN : Other(connectRDP(ok, MaxConnects))
    \/ Other(disconnect)
    \/ Other(startExam(MaxExams))
    \/ Other(stopExamCall)
    \/ \E enabled \in BOOLEAN : Other(setManualOverride(enabled))
    \/ Other(handleRemotelyScreenshot(MaxFrames))
    \/ \E f \in Frames : Other(analyzeScreen(f))
    \/ \E f \in Frames : Other(handleQuestionDetected(f))
    \/ \E f \in Frames : Other(findAnswer(f, RagOutcomes))
    \/ \E f \in Frames : Other(findAnswerWeb(f, WebOutcomes))
    \/ \E f \in Frames : Other(findAnswerReasoned(f))
    \/ \E f \in Frames, k \in Kinds : Other(executeAnswerClick(f, k))
    \/ \E f \in Frames, k \in Kinds : Other(executeAnswerRecord(f, k))

\* The whole program: API calls, screenshots and the chains they start.
Spec == Init /\ [][Next]_vars

NextApi ==
    \/ \E ok \in BOOLEAN : Called("connectRDP", ok, {}, connectRDP(ok, MaxConnects))
    \/ Called("disconnect", TRUE, {}, disconnect)
    \/ Called("startExam", startExamAllowed,
              IF startExamAllowed THEN {"exam_started"} ELSE {}, startExam(MaxExams))
    \/ Called("stopExam", TRUE, {"exam_stopped"}, stopExamCall)
    \/ \E enabled \in BOOLEAN :
          Called("setManualOverride", TRUE, {"manual_override_changed"},
                 setManualOverride(enabled))
    \/ \E op \in InjectionOps :
          Called(op, injectionResult(op).success, {}, injectInput(op))
    \/ Called("manual_click", manualAllowed, {}, manual_click)
    \/ Called("manual_type", manualAllowed,
              IF manualAllowed THEN {"manual_action"} ELSE {}, manual_type)
    \/ Handler(performClick)
    \/ Handler(handleRemotelyScreenshot(MaxApiFrames))
    \/ \E f \in Frames : Handler(analyzeScreen(f))
    \/ \E f \in Frames : Handler(handleQuestionDetected(f))
    \/ \E f \in Frames : Handler(findAnswer(f, RagOutcomes))
    \/ \E f \in Frames : Handler(findAnswerWeb(f, WebOutcomes))
    \/ \E f \in Frames : Handler(findAnswerReasoned(f))
    \/ \E f \in Frames, k \in Kinds : Handler(executeAnswerClick(f, k))
    \/ \E f \in Frames, k \in Kinds : Handler(executeAnswerRecord(f, k))

\* The same program with the observer recording what each API call returned
\* and emitted.
SpecApi == Init /\ [][NextApi]_vars

NextRuntime ==
    \/ \E ok \in BOOLEAN : Other(connectRDP(ok, MaxConnects))
    \/ Other(startExam(MaxRestarts))
    \/ Other(stopExamCall)
    \/ Other(onDisconnected)
    \/ \E newConfig \in ConfigUpdates : Other(saveConfig(newConfig))
    \/ Other(handleRemotelyScreenshot(MaxApiFrames))
    \/ \E f \in Frames : Other(analyzeScreen(f))
    \/ \E f \in Frames : Other(handleQuestionDetected(f))
    \/ \E f \in Frames : Other(findAnswer(f, RagBoundaryOutcomes))
    \/ \E f \in Frames : Other(findAnswerWeb(f, WebBoundaryOutcomes))
    \/ \E f \in Frames : Other(findAnswerReasoned(f))
    \/ \E f \in Frames, k \in Kinds : Other(executeAnswerClick(f, k))
    \/ \E f \in Frames, k \in Kinds : Other(executeAnswerRecord(f, k))

\* One screenshot under the events of a running server: configuration
\* saves, a reported loss of the connection, lookups that return scores on
\* the thresholds.
SpecRuntime == Init /\ [][NextRuntime]_vars

NextClient ==
    \/ \E ok \in BOOLEAN : Other(connectRDP(ok, MaxSessions))
    \/ Other(disconnect)
    \/ Other(startExam(MaxExams))
    \/ Other(stopExamCall)
    \/ Other(onDisconnected)
    \/ Other(attemptReconnect)
    \/ \E ok \in BOOLEAN : Other(reconnectTimeout(ok))

\* The controller and the remote-session client without screenshots:
\* connection, connection events, reconnection, the poll timer.
SpecClient == Init /\ [][NextClient]_vars

NextVision ==
    \/ Other(analyzeIdleScreen)
    \/ Other(clearHistory)

\* The vision analyzer alone, looking at screens without a question.
SpecVision == Init /\ [][NextVision]_vars

NextRag ==
    \/ \E content \in Texts, subject \in Subjects :
          Other(addDocument(content, subject))
    \/ \E query \in Texts, limit \in 1..2, examType \in Subjects \cup {"null"} :
          Other(search(query, limit, examType))

\* The knowledge store alone: documents are added and searched.
SpecRag == Init /\ [][NextRag]_vars

\* ----- properties -----------------------------------------------------------

\* Chain positions between the detection of a question and its answered or
\* uncertain outcome, and between that outcome and the history record.
Resolving == {"search", "web", "reasoning"}
Executing == {"coordinates", "delay"}
Arrived == {f \in Frames : obs[f].arrival # "none"}

\* C1: whatever screenshots arrive, at most one question is in the
\* resolving phase (detected, outcome still open) at any time.
C1_AtMostOneResolving ==
    Cardinality({f \in Frames : \E k \in Kinds : pc[f][k] \in Resolving}) <= 1

\* C2: an action is dispatched only for an answer whose confidence is at
\* least the execution threshold, and every question recorded as executed
\* has a confidence of at least the threshold.
C2_ExecutedAboveThreshold ==
    /\ \A f \in Frames, k \in Kinds :
          pc[f][k] \in Executing => answerData[f][k] >= confidence_threshold
    /\ \A i \in 1..Len(questionHistory) :
          questionHistory[i].confidence >= confidence_threshold

\* C3: while manual override is set the pipeline dispatches no click; a
\* resolution in flight when override was enabled skips its execution step.
C3_NoClickUnderOverride ==
    [][\A f \in Frames, k \in Kinds :
          (pc[f][k] = "coordinates" /\ pc'[f][k] = "delay") => ~manualOverride]_vars

\* C4: the detection of one question causes at most one answer-found
\* handling and at most one click, and no two resolutions execute actions
\* at the same time.
C4_ResolvedOnce ==
    /\ \A f \in Frames : obs[f].answerFound <= 1 /\ obs[f].clicks <= 1
    /\ Cardinality({c \in Frames \X Kinds : pc[c[1]][c[2]] \in Executing}) <= 1

C6_AnalysedUnderOverride ==
    \A f \in Arrived : obs[f].override => obs[f].arrival = "analyzed"

\* C6 amended: a screenshot that arrives while manual override is enabled
\* is forwarded to the observers but not analysed: no analysis, no Question
\* record, no lookup.
C6_ForwardedNotAnalysed ==
    \A f \in Arrived :
        obs[f].override =>
            /\ obs[f].forwarded /\ obs[f].arrival = "skipped"
            /\ lastAnalysis # f /\ currentQuestion.id # f
            /\ obs[f].records = 0 /\ obs[f].lookups = 0

\* C6 witness: a screenshot arrived during an active exam under override.
C6_Witness ==
    \E f \in Arrived : obs[f].override /\ obs[f].forwarded /\ isActive

C9_StartNeedsConnection ==
    [][(lastCall'.op = "startExam" /\ ~connected) =>
          /\ ~lastCall'.ok /\ lastCall'.events = {}
          /\ UNCHANGED <<isActive, examId, sessionId, questionHistory, exams>>]_vars

\* C9 witness: a startExam call was rejected.
C9_Witness ==
    lastCall.op = "startExam" /\ ~lastCall.ok /\ ~connected /\ ~isActive

\* C10: no input-injection call (clickAnswer, typeAnswer, dragAndDrop)
\* reports success while the remote session is not connected.
C10_NoInjectionWhenDisconnected ==
    (lastCall.op \in InjectionOps /\ ~clientConnected) => ~lastCall.ok

\* C11: a resolution that ends below the execution threshold or with a
\* failure leaves the question uncertain and manual override enabled, and
\* while override is set no further question enters the resolving phase.
C11_UncertainHaltsQuestions ==
    [][/\ \A f \in Frames, k \in Kinds :
             (pc[f][k] \in Resolving /\ pc'[f][k] = "done") =>
                 manualOverride' /\ currentQuestion'.status = "uncertain"
       /\ manualOverride =>
             \A f \in Frames, k \in Kinds :
                 pc'[f][k] \in Resolving => pc[f][k] \in Resolving]_vars

\* C12: when the execution of an answered question fails (no coordinates),
\* the question becomes abandoned, manual override is enabled and the
\* history records the question as abandoned.
C12_FailedExecutionAbandoned ==
    [][\A f \in Frames, k \in Kinds :
          (pc[f][k] = "coordinates" /\ pc'[f][k] = "done") =>
              /\ manualOverride'
              /\ currentQuestion'.status = "abandoned"
              /\ Len(questionHistory') = Len(questionHistory) + 1
              /\ questionHistory'[Len(questionHistory')].status = "abandoned"]_vars

\* C13: when the knowledge search of the lookup chain fails, the failure
\* counts as no result: the web search (if configured) and the reasoner are
\* still attempted for that question.
C13_FailedLookupFallsBack ==
    \A f \in Frames :
        "knowledge" \in obs[f].failed =>
            /\ "reasoner" \in obs[f].later
            /\ webConfigured => "web" \in obs[f].later

C15_LifecycleForward ==
    [][/\ (currentQuestion.status = "uncertain" /\ currentQuestion'.id = currentQuestion.id)
             => currentQuestion'.status = "uncertain"
       /\ \A i \in 1..Len(questionHistory') :
             questionHistory'[i].status # "uncertain"]_vars

\* C16: while the session is stopped no click is dispatched, the history
\* does not change and no question enters the resolving phase.
C16_StopPreventsExecution ==
    [][(~isActive /\ ~isActive') =>
          /\ questionHistory' = questionHistory
          /\ \A f \in Frames, k \in Kinds :
                /\ ~(pc[f][k] = "coordinates" /\ pc'[f][k] = "delay")
                /\ pc'[f][k] \in Resolving => pc[f][k] \in Resolving]_vars

\* Click messages that went out on the socket, over the screenshots in F.
RECURSIVE SentClicks(_)
SentClicks(F) ==
    IF F = {} THEN 0
    ELSE LET f == CHOOSE x \in F : TRUE IN obs[f].sent + SentClicks(F \ {f})

\* C17: the history holds an executed question only for a click that was
\* sent to the remote backend: no more entries than sent clicks.
C17_HistoryOnlyForSentClicks ==
    Len(questionHistory) <= SentClicks(Frames)

\* C18: a screenshot that arrives while the previous one is interpreted,
\* resolved or executed is not processed concurrently: at most one
\* screenshot is in processing at any time.
C18_OneScreenshotInProcessing ==
    Cardinality({f \in Frames : \E k \in Kinds : pc[f][k] \notin {"idle", "done"}}) <= 1

\* C19: the history lists the questions in the order they were detected,
\* even when their executions complete out of order: of two questions with
\* history entries, the one detected first has the earlier entry.
C19_HistoryInDetectionOrder ==
    \A f, g \in Frames :
        (obs[f].pushed > 0 /\ obs[g].pushed > 0 /\ obs[f].order < obs[g].order)
            => obs[f].pushed < obs[g].pushed

\* C20: the coordinates clicked for a question are computed from the
\* analysis in which the question was detected, never from the analysis of
\* a later screenshot.
C20_CoordinatesFromOwnAnalysis ==
    [][\A f \in Frames, k \in Kinds :
          (pc[f][k] \in Resolving /\ pc'[f][k] = "coordinates") => lastAnalysis = f]_vars

\* C21: when neither the knowledge search nor the web search yields a
\* result with a score of at least the similarity threshold, the reasoner is
\* invoked after them, and it is the last stage: the lookup chain leaves the
\* web stage without the reasoner only with an accepted answer of at least
\* the similarity threshold, and after the reasoner it only ends or executes.
C21_ReasonerAfterMisses ==
    [][\A f \in Frames :
          /\ (pc[f]["va"] = "web" /\ pc'[f]["va"] \in {"done", "coordinates"}) =>
                currentQuestion'.confidence >= config.similarity_threshold
          /\ pc[f]["va"] = "reasoning" =>
                pc'[f]["va"] \in {"reasoning", "done", "coordinates"}]_vars

\* C22: a knowledge result ends the lookup chain when its score equals the
\* similarity threshold: the score is accepted and no later stage runs.
C22_BoundaryScoreAccepted ==
    \A f \in Frames :
        obs[f].boundary =>
            obs[f].later = {} /\ pc[f]["va"] \notin {"web", "reasoning"}

\* C23: every screenshot received is forwarded to the observers exactly
\* once, whether the session is active or not and whether manual override
\* is set or not; nothing is forwarded for a screenshot not yet received.
C23_ForwardedExactlyOnce ==
    \A f \in Frames :
        IF f \in Arrived THEN obs[f].forwarded /\ obs[f].shots = 1
        ELSE ~obs[f].forwarded /\ obs[f].shots = 0

\* C23 witness: one screenshot was skipped under override, another was
\* analysed, and each was forwarded once.
C23_Witness ==
    \E f, g \in Arrived :
        /\ obs[f].arrival = "skipped" /\ obs[f].override /\ obs[f].shots = 1
        /\ obs[g].arrival = "analyzed" /\ obs[g].shots = 1

\* The vision call of screenshot f failed: its analysis ended without ever
\* completing.
AnalysisFailed(f) ==
    obs[f].arrival = "analyzed" /\ pc[f]["va"] = "done" /\ obs[f].order = 0

C25_NothingWhileDisconnected ==
    [][(isActive /\ ~connected /\ isActive' /\ ~connected') =>
          pc' = pc /\ ~requestsScreenshots]_vars

\* C26: the reconnect attempts never exceed maxReconnectAttempts, and the
\* attempt counter restarts after a successful connect.
C26_ReconnectBounded ==
    [][/\ reconnectAttempts' <= maxReconnectAttempts
       /\ clientSessionId' # clientSessionId => reconnectAttempts' = 0]_vars

\* C27: after a successful startExam the poll loop is running: while the
\* session is active and connected, the interval timer the controller
\* stores is alive and asks for screenshots.
C27_PollLoopRunning ==
    (isActive /\ connected /\ clientConnected) =>
        requestsScreenshots /\ screenshotInterval \in timers

\* C28: a resolution in flight uses the thresholds captured when its cycle
\* started: an answer is executed exactly when its confidence is at least
\* the execution threshold in force when its question was detected,
\* whatever configuration was saved since.
C28_ThresholdsCapturedAtStart ==
    [][\A f \in Frames, k \in Kinds :
          /\ (pc[f][k] \in Resolving /\ pc'[f][k] = "coordinates") =>
                answerData'[f][k] >= obs[f].thresholds.confidence_threshold
          /\ (pc[f][k] \in Resolving /\ pc'[f][k] = "done"
                 /\ obs'[f].answerFound > obs[f].answerFound) =>
                currentQuestion'.confidence < obs[f].thresholds.confidence_threshold]_vars

\* C29: the override flag and the active flag are independent: a
\* setManualOverride call changes the override flag and nothing else of the
\* session (active flag, ids, connection, current question, history, timers,
\* chains), and startExam and stopExam leave the override flag as it was.
C29_FlagsIndependent ==
    [][/\ lastCall'.op = "setManualOverride" =>
             UNCHANGED <<isActive, examId, sessionId, connected, currentQuestion,
                         questionHistory, screenshotInterval, timers, pc>>
       /\ lastCall'.op \in {"startExam", "stopExam"} => UNCHANGED manualOverride]_vars

\* C29 witness: override was switched on in an active session, which is
\* still active.
C29_Witness ==
    lastCall.op = "setManualOverride" /\ isActive /\ manualOverride

\* The documents the last search looked at that pass its exam-type filter.
Searched ==
    {i \in 1..lastSearch.size :
        lastSearch.examType = "null" \/ memoryStore[i].subject = lastSearch.examType}

\* C30: of several knowledge candidates the one with the highest score is
\* used, and among candidates with the same top score the one inserted most
\* recently.
C30_TopIsHighestThenNewest ==
    lastSearch.results # <<>> =>
        LET top == lastSearch.results[1]
            Score(i) == calculateTextSimilarity(lastSearch.query, memoryStore[i].content)
        IN \A i \in Searched :
              /\ Score(i) <= top.score
              /\ Score(i) = top.score => i <= top.id

\* C31: a memory-fallback search returns at most limit results, ordered by
\* non-increasing score, each of a document that was in the store, passes
\* the exam-type filter when one is given and scores above 0.1 for the
\* query; the search does not modify the store.
C31_SearchResultsWellFormed ==
    [][lastSearch' # lastSearch =>
          LET rs == lastSearch'.results IN
          /\ memoryStore' = memoryStore
          /\ Len(rs) <= lastSearch'.limit
          /\ \A i \in 1..Len(rs) :
                /\ i > 1 => rs[i - 1].score >= rs[i].score
                /\ rs[i].id \in 1..Len(memoryStore)
                /\ lastSearch'.examType # "null" =>
                      memoryStore[rs[i].id].subject = lastSearch'.examType
                /\ rs[i].score = calculateTextSimilarity(lastSearch'.query,
                                                         memoryStore[rs[i].id].content)
                /\ rs[i].score > MinScore]_vars

\* C31 witness: a filtered search over a store of three documents, two of
\* them passing the filter with different scores, cut to one result.
C31_Witness ==
    /\ Len(memoryStore) = 3 /\ lastSearch.size = 3
    /\ lastSearch.examType = "math" /\ lastSearch.limit = 1
    /\ Len(lastSearch.results) = 1
    /\ \E i, j \in Searched :
          /\ calculateTextSimilarity(lastSearch.query, memoryStore[i].content) = 100
          /\ calculateTextSimilarity(lastSearch.query, memoryStore[j].content) = 50
    /\ lastSearch.results[1].score = 100

\* C32: after any sequence of analyses the analysis history holds at most
\* ten entries, in completion order; a completed analysis becomes its last
\* entry behind the most recent earlier ones; and whenever the history is
\* not empty, lastAnalysis is its last entry.
C32_AnalysisHistoryBounded ==
    [][LET h == analysisHistory
           n == Len(analysisHistory')
       IN /\ n <= HistoryCap
          /\ \A i \in 1..(n - 1) : analysisHistory'[i] < analysisHistory'[i + 1]
          /\ n > 0 => lastAnalysis' = analysisHistory'[n]
          /\ analyses' # analyses /\ lastAnalysis' # lastAnalysis =>
                /\ n = (IF Len(h) < HistoryCap THEN Len(h) + 1 ELSE HistoryCap)
                /\ \A i \in 1..(n - 1) : analysisHistory'[i] = h[Len(h) - (n - 1) + i]]_vars

\* C32 witness: twelve analyses completed; the history holds the last ten,
\* the first two were shifted out.
C32_Witness ==
    /\ analyses = MaxAnalyses /\ Len(analysisHistory) = HistoryCap
    /\ analysisHistory[1] = MaxFrames + 3
    /\ lastAnalysis = MaxFrames + MaxAnalyses

\* C33: manual override is enabled automatically only for a question that
\* ends uncertain, and a question whose answer passed the execution
\* threshold and was executed does not cause it: no chain of a question
\* raises override after the question's click was dispatched or its
\* execution was recorded, and no question is recorded as executed after
\* it was marked uncertain.
C33_OverrideOnlyForUncertain ==
    [][\A f \in Frames, k \in Kinds :
          /\ (~manualOverride /\ manualOverride' /\ pc[f][k] # "done" /\ pc'[f][k] = "done") =>
                /\ currentQuestion'.status = "uncertain"
                /\ obs[f].pushed = 0
                /\ \A j \in Kinds : pc[f][j] # "delay"
          /\ (pc[f][k] = "delay" /\ pc'[f][k] = "done") =>
                ~(currentQuestion.id = f /\ currentQuestion.status = "uncertain")]_vars

\* C34: the answer fields written during a resolution and the history
\* record appended after its execution belong to the question of that
\* resolution: the chain of screenshot f writes its answer on, and records,
\* the question detected in f, never one detected in a later screenshot.
C34_AnswerOnOwnQuestion ==
    [][\A f \in Frames, k \in Kinds :
          /\ (pc[f][k] \in Resolving /\ obs'[f].answerFound > obs[f].answerFound) =>
                currentQuestion'.id = f
          /\ (pc[f][k] = "delay" /\ pc'[f][k] = "done") =>
                questionHistory'[Len(questionHistory')].id = f]_vars

\* C35: between a startExam and the following stopExam the exam id does not
\* change and the history only grows: whatever happens while the session
\* stays active, the history keeps its entries.
C35_HistoryOnlyGrows ==
    [][(isActive /\ isActive') =>
          /\ examId' = examId
          /\ Len(questionHistory') >= Len(questionHistory)
          /\ SubSeq(questionHistory', 1, Len(questionHistory)) = questionHistory]_vars

\* C36: at most one screenshot-request timer is alive at any time, and
\* after stopExam, while the controller stores no timer handle, none is
\* running.
C36_AtMostOneTimer ==
    /\ Cardinality(timers) <= 1
    /\ screenshotInterval = 0 => timers = {}

\* C37: after ExamTaker.disconnect has completed, the controller's
\* connected flag and the client's connected flag are both false, the
\* session is inactive and no screenshot request is made any more.
C37_DisconnectedAfterDisconnect ==
    lastCall.op = "disconnect" =>
        ~connected /\ ~clientConnected /\ ~isActive /\ ~requestsScreenshots

\* C38: a connect that fails emits no 'connected' event and leaves the
\* connected flags and the session id as they were, and the client is
\* connected only after a successful connect that was not followed by a
\* disconnect.
C38_ConnectedOnlyAfterConnect ==
    [][/\ (lastCall'.op = "connectRDP" /\ ~lastCall'.ok) =>
             UNCHANGED <<clientConnected, connected, clientSessionId, sessionId>>
       /\ clientConnected' =>
             clientSessionId' # 0 /\ lastCall'.op # "disconnect"]_vars

====
